---- MODULE Spec2Model ----
(***************************************************************************)
(* A model of the RDS part of the aws-broker: the in-place update of an    *)
(* instance record (modify), the custom parameter group provisioning of    *)
(* services/rds/parameter_group.go against the RDS control plane, and the  *)
(* cleanup sweep over the parameter groups.                                *)
(*                                                                         *)
(* Strings are the program's strings.  Every control-plane call is one     *)
(* step; the outcome of a call is chosen by the control plane (success, or *)
(* one of the failures the call can return).                               *)
(***************************************************************************)
EXTENDS Integers, Sequences, FiniteSets, TLC

VARIABLES
    inst,       \* inst[p]: the *RDSInstance the caller p works on
    settings,   \* config.Settings (EnableFunctionsFeature)
    groups,     \* control plane: parameter group name -> [family, params]
    attached,   \* control plane: names of the groups attached to a live instance
    catalog,    \* control plane: the engine-default parameter pages
    proc,       \* proc[p]: the position and locals of caller p's running call
    prev,       \* the last completed ProvisionCustomParameterGroupIfNecessary call
    addressed,  \* every group name a provisioning call handed to the control plane
    mPre,       \* modify: the instance before the last modify call
    mOpts,      \* modify: the Options of the last modify call
    mPlan,      \* modify: the plan of the last modify call
    mErr,       \* modify: what the last modify call returned
    sweep       \* the position and the log of the running cleanup sweep

vars == <<inst, settings, groups, attached, catalog, proc, prev, addressed,
          mPre, mOpts, mPlan, mErr, sweep>>

cpVars   == <<groups, attached, catalog>>
modVars  == <<mPre, mOpts, mPlan, mErr>>
provVars == <<proc, prev, addressed>>

----------------------------------------------------------------------------
(* Bounds of the model. *)

MaxStorage   == 2    \* AllocatedStorage ranges over 0..MaxStorage
MaxRetention == 2    \* BackupRetentionPeriod ranges over 0..MaxRetention
PageSize     == 2    \* parameter groups on one page of the listing
MaxFetches   == 4    \* pages one lookup is followed for in the model

Procs    == {"p1", "p2"}
MainProc == "p1"

NoError == "nil"
Unset   == "unset"   \* a nil *bool

EmptyMap == [k \in {} |-> ""]   \* a map with no key

----------------------------------------------------------------------------
(* Strings. *)

Digits     == {"0", "1", "2", "3", "4", "5", "6", "7", "8", "9"}
LowerAlnum == Digits \cup
    {"a", "b", "c", "d", "e", "f", "g", "h", "i", "j", "k", "l", "m",
     "n", "o", "p", "q", "r", "s", "t", "u", "v", "w", "x", "y", "z"}

CharAt(s, k) == SubSeq(s, k, k)

HasPrefix(s, p) == Len(s) >= Len(p) /\ SubSeq(s, 1, Len(p)) = p

RECURSIVE KeepChars(_, _)
KeepChars(s, keep) ==
    IF Len(s) = 0 THEN ""
    ELSE (IF CharAt(s, 1) \in keep THEN CharAt(s, 1) ELSE "")
         \o KeepChars(SubSeq(s, 2, Len(s)), keep)

\* The length of the longest prefix of s made of characters of cs.
RECURSIVE SpanLen(_, _)
SpanLen(s, cs) ==
    IF Len(s) = 0 \/ CharAt(s, 1) \notin cs THEN 0
    ELSE 1 + SpanLen(SubSeq(s, 2, Len(s)), cs)

----------------------------------------------------------------------------
(* The instance record. *)

\* The name the broker derives from the instance's database name.
FormatDBName(i) == KeepChars(i.Database, LowerAlnum)

\* What modify returns when the allocated storage would shrink.
ErrDecrease == "cannot decrease the size of an existing instance"

\* modifyStorage without the check against the existing size.
modifyStorageNoCheck(i, options) ==
    IF options.AllocatedStorage = 0
    THEN [storage |-> i.AllocatedStorage, err |-> NoError]
    ELSE [storage |-> options.AllocatedStorage, err |-> NoError]

\* The storage policy of modify: [storage, err].
modifyStorage(i, options) ==
    IF options.AllocatedStorage = 0
    THEN [storage |-> i.AllocatedStorage, err |-> NoError]
    ELSE IF options.AllocatedStorage < i.AllocatedStorage
         THEN [storage |-> i.AllocatedStorage, err |-> ErrDecrease]
         ELSE [storage |-> options.AllocatedStorage, err |-> NoError]

\* modifyPgCron taking a false flag of the options for no flag.
modifyPgCronTrueOnly(i, options) ==
    IF options.EnablePgCron = "true" THEN "true"
    ELSE IF i.EnablePgCron = "true" THEN Unset
    ELSE i.EnablePgCron

\* The pg-cron policy of modify.  A flag given in the options overwrites the
\* instance's; TestModifyInstance expects an instance whose flag is true to
\* end with no flag when the options give none.
modifyPgCron(i, options) ==
    IF options.EnablePgCron # Unset THEN options.EnablePgCron
    ELSE IF i.EnablePgCron = "true" THEN Unset
    ELSE i.EnablePgCron

\* modify returning at the storage failure, before the other fields.
modifyReturnEarly(i, options, plan) ==
    LET st == modifyStorage(i, options) IN
    IF st.err # NoError THEN [inst |-> i, err |-> st.err]
    ELSE [inst |->
            [i EXCEPT
                !.AllocatedStorage = st.storage,
                !.BackupRetentionPeriod =
                    IF options.BackupRetentionPeriod = 0 THEN @
                    ELSE options.BackupRetentionPeriod,
                !.BinaryLogFormat =
                    IF options.BinaryLogFormat = "" THEN @
                    ELSE options.BinaryLogFormat,
                !.EnablePgCron = modifyPgCron(i, options),
                !.DbVersion =
                    IF plan.DbVersion = "" THEN @ ELSE plan.DbVersion],
          err |-> NoError]

\* modify refusing a retention smaller than the existing one, as it refuses
\* a smaller storage.
modifyRetentionNoDecrease(i, options, plan) ==
    LET st == modifyStorage(i, options) IN
    [inst |->
        [i EXCEPT
            !.AllocatedStorage = st.storage,
            !.BackupRetentionPeriod =
                IF options.BackupRetentionPeriod <= @ THEN @
                ELSE options.BackupRetentionPeriod,
            !.BinaryLogFormat =
                IF options.BinaryLogFormat = "" THEN @
                ELSE options.BinaryLogFormat,
            !.EnablePgCron = modifyPgCron(i, options),
            !.DbVersion = IF plan.DbVersion = "" THEN @ ELSE plan.DbVersion],
     err |-> st.err]

\* modify taking the plan's version only for an instance that has none.
modifyVersionIfUnset(i, options, plan) ==
    LET st == modifyStorage(i, options) IN
    [inst |->
        [i EXCEPT
            !.AllocatedStorage = st.storage,
            !.BackupRetentionPeriod =
                IF options.BackupRetentionPeriod = 0 THEN @
                ELSE options.BackupRetentionPeriod,
            !.BinaryLogFormat =
                IF options.BinaryLogFormat = "" THEN @
                ELSE options.BinaryLogFormat,
            !.EnablePgCron = modifyPgCron(i, options),
            !.DbVersion = IF @ = "" THEN plan.DbVersion ELSE @],
     err |-> st.err]

\* RDSInstance.modify(options, plan, settings): [inst, err].
modify(i, options, plan) ==
    LET st == modifyStorage(i, options) IN
    [inst |->
        [i EXCEPT
            !.AllocatedStorage = st.storage,
            !.BackupRetentionPeriod =
                IF options.BackupRetentionPeriod = 0 THEN @
                ELSE options.BackupRetentionPeriod,
            !.BinaryLogFormat =
                IF options.BinaryLogFormat = "" THEN @
                ELSE options.BinaryLogFormat,
            !.EnablePgCron = modifyPgCron(i, options),
            !.DbVersion = IF plan.DbVersion = "" THEN @ ELSE plan.DbVersion],
     err |-> st.err]

----------------------------------------------------------------------------
(* services/rds/parameter_group.go: the parts that make no call. *)

pGroupPrefix      == "cg-aws-broker-"
pgCronLibraryName == "pg_cron"

\* i.EnablePgCron as parameter_group.go reads it: a flag that is set and true.
PgCronOn(i) == i.EnablePgCron = "true"

\* The match of ^\d+\.*\d* at the start of a version, "" when there is none.
VersionToken(v) ==
    LET d1    == SpanLen(v, Digits)
        rest1 == SubSeq(v, d1 + 1, Len(v))
        dots  == SpanLen(rest1, {"."})
        rest2 == SubSeq(rest1, dots + 1, Len(rest1))
        d2    == SpanLen(rest2, Digits)
    IN IF d1 = 0 THEN "" ELSE SubSeq(v, 1, d1 + dots + d2)

\* needCustomParameters with the engine test of the binary log format lost.
needCustomParametersAnyEngine(i, s) ==
    IF i.EnableFunctions /\ s.EnableFunctionsFeature /\ i.DbType = "mysql"
    THEN TRUE
    ELSE IF i.BinaryLogFormat # ""
    THEN TRUE
    ELSE IF PgCronOn(i) /\ i.DbType = "postgres"
    THEN TRUE
    ELSE FALSE

needCustomParameters(i, s) ==
    IF i.EnableFunctions /\ s.EnableFunctionsFeature /\ i.DbType = "mysql"
    THEN TRUE
    ELSE IF i.BinaryLogFormat # "" /\ i.DbType = "mysql"
    THEN TRUE
    ELSE IF PgCronOn(i) /\ i.DbType = "postgres"
    THEN TRUE
    ELSE FALSE

\* A Go map as a function; m with key k set to v.
MapSet(m, k, v) ==
    [x \in DOMAIN m \cup {k} |-> IF x = k THEN v ELSE m[x]]

\* The part of buildCustomSharePreloadLibrariesParam after the lookup.
buildCustomSharePreloadLibrariesParam(defaultLibraries, customLibrary) ==
    IF defaultLibraries # ""
    THEN customLibrary \o "," \o defaultLibraries
    ELSE customLibrary

\* The mysql map of getCustomParameters with the "0" of the else branch lost.
mysqlParametersOmitZero(i, s) ==
    LET m1 == IF i.EnableFunctions /\ s.EnableFunctionsFeature
              THEN MapSet(EmptyMap, "log_bin_trust_function_creators", "1")
              ELSE EmptyMap
    IN IF i.BinaryLogFormat # ""
       THEN MapSet(m1, "binlog_format", i.BinaryLogFormat)
       ELSE m1

\* The mysql map of getCustomParameters.
mysqlParameters(i, s) ==
    LET m1 == IF i.EnableFunctions /\ s.EnableFunctionsFeature
              THEN MapSet(EmptyMap, "log_bin_trust_function_creators", "1")
              ELSE MapSet(EmptyMap, "log_bin_trust_function_creators", "0")
    IN IF i.BinaryLogFormat # ""
       THEN MapSet(m1, "binlog_format", i.BinaryLogFormat)
       ELSE m1

\* getCustomParameters calls the control plane for a postgres instance with
\* pg-cron, and only then.
needsDefaultLookup(i) == i.DbType = "postgres" /\ PgCronOn(i)

\* getCustomParameters, given what buildCustomSharePreloadLibrariesParam
\* returned (read only where needsDefaultLookup).
getCustomParameters(i, s, preloadLibrariesParam) ==
    LET c1 == IF i.DbType = "mysql"
              THEN MapSet(EmptyMap, "mysql", mysqlParameters(i, s))
              ELSE EmptyMap
    IN IF i.DbType = "postgres"
       THEN MapSet(c1, "postgres",
                IF PgCronOn(i)
                THEN MapSet(EmptyMap, "shared_preload_libraries",
                            preloadLibrariesParam)
                ELSE EmptyMap)
       ELSE c1

\* The group name with the memoized family in it.
pgroupNameWithFamily(i) ==
    pGroupPrefix \o FormatDBName(i) \o i.ParameterGroupFamily

\* The name of the instance's parameter group.
pgroupName(i) == pGroupPrefix \o FormatDBName(i)

----------------------------------------------------------------------------
(* Values the model draws from. *)

NewInstance(db, type) ==
    [Database |-> db, DbType |-> type, DbVersion |-> "",
     AllocatedStorage |-> 0, BackupRetentionPeriod |-> 0,
     BinaryLogFormat |-> "", EnableFunctions |-> FALSE,
     EnablePgCron |-> Unset, ParameterGroupFamily |-> ""]

NoOptions ==
    [AllocatedStorage |-> 0, BackupRetentionPeriod |-> 0,
     BinaryLogFormat |-> "", EnablePgCron |-> Unset]

NoPlan == [DbVersion |-> ""]

IdleProc ==
    [pc |-> "idle", op |-> "none", cont |-> "none", marker |-> "",
     value |-> Unset, params |-> EmptyMap, need |-> FALSE, result |-> "",
     err |-> NoError, calls |-> <<>>, g0 |-> EmptyMap]

NoPrev == [valid |-> FALSE]

IdleSweep ==
    [pc |-> "idle", listing |-> <<>>, page |-> 1, idx |-> 1,
     deletes |-> <<>>, logged |-> <<>>, listErr |-> FALSE, g0 |-> EmptyMap]

TriState == {Unset, "true", "false"}

\* The instances, options and plans of the modify calls.
ModifyInstances ==
    { [NewInstance("db-1", "postgres") EXCEPT
          !.AllocatedStorage = st, !.BackupRetentionPeriod = r,
          !.BinaryLogFormat = b, !.EnablePgCron = c, !.DbVersion = v]
      : st \in 0..MaxStorage, r \in 0..MaxRetention, b \in {"", "ROW"},
        c \in TriState, v \in {"", "12.3"} }

ModifyOptions ==
    { [AllocatedStorage |-> st, BackupRetentionPeriod |-> r,
       BinaryLogFormat |-> b, EnablePgCron |-> c]
      : st \in 0..MaxStorage, r \in 0..MaxRetention, b \in {"", "ROW"},
        c \in TriState }

ModifyPlans == { [DbVersion |-> v] : v \in {"", "13"} }

----------------------------------------------------------------------------
(* The control plane, as far as the calls of parameter_group.go see it. *)

\* DescribeDBEngineVersions(DefaultOnly, Engine): the family of the default
\* version of each engine.
DefaultEngineFamily == [mysql |-> "mysql8.0", postgres |-> "postgres15"]

NilValue == "<nil>"   \* a parameter without a ParameterValue

Param(name, value) == [ParameterName |-> name, ParameterValue |-> value]

\* Engine-default catalogs: request marker -> page.  The first request has
\* no marker; a page's Marker names the next page, "" when it is the last.
CatalogNoLibraries ==
    [m \in {""} |->
        [Parameters |-> <<Param("max_connections", "100")>>, Marker |-> ""]]

CatalogSecondPage ==
    [m \in {"", "m2"} |->
        IF m = ""
        THEN [Parameters |-> <<Param("max_connections", "100")>>,
              Marker |-> "m2"]
        ELSE [Parameters |-> <<Param("work_mem", "4"),
                               Param("shared_preload_libraries",
                                     "pg_stat_statements")>>,
              Marker |-> ""]]

CatalogEmptyValue ==
    [m \in {"", "m2"} |->
        IF m = ""
        THEN [Parameters |-> <<Param("shared_preload_libraries", ""),
                               Param("max_connections", "100")>>,
              Marker |-> "m2"]
        ELSE [Parameters |-> <<Param("shared_preload_libraries", "other")>>,
              Marker |-> ""]]

CatalogNilValue ==
    [m \in {""} |->
        [Parameters |-> <<Param("shared_preload_libraries", NilValue)>>,
         Marker |-> ""]]

\* A control plane that hands out a marker with every page.
CatalogNoLastPage ==
    [m \in {"", "m2"} |->
        [Parameters |-> <<Param("max_connections", "100")>>, Marker |-> "m2"]]

Catalogs ==
    {CatalogNoLibraries, CatalogSecondPage, CatalogEmptyValue, CatalogNilValue,
     CatalogNoLastPage}

\* What a group holds: its family and the parameter values set in it.
Group(family, params) == [family |-> family, params |-> params]

\* ModifyDBParameterGroup leaving alone the parameters the group already has
\* a value for.
ApplyToNewKeys(g, parameters) ==
    [g EXCEPT !.params =
        [k \in DOMAIN g.params \cup DOMAIN parameters |->
            IF k \in DOMAIN g.params THEN g.params[k] ELSE parameters[k]]]

\* ModifyDBParameterGroup sets the parameters it is given and leaves the
\* group's other parameters as they are.
ApplyTo(g, parameters) ==
    [g EXCEPT !.params =
        [k \in DOMAIN g.params \cup DOMAIN parameters |->
            IF k \in DOMAIN parameters THEN parameters[k] ELSE g.params[k]]]

MapRemove(m, k) == [x \in DOMAIN m \ {k} |-> m[x]]

----------------------------------------------------------------------------
(* services/rds/parameter_group.go: the calls, one control-plane call a step. *)

ErrCustomParams == "encountered error getting custom parameters: "
ErrApplying     == "encountered error applying parameter group: "
ErrFamily       == "encounted error getting parameter group family: "
ErrCreating     == "encounted error when creating database: "

Failed(op) == op \o " failed"

\* A call made to the control plane; present tells whether a group named
\* arg was there when the call was made.
Call(op, arg, ok) ==
    [op |-> op, arg |-> arg, ok |-> ok, present |-> arg \in DOMAIN groups]

\* The call of the process record pr returns.
Finish(pr, result, err) ==
    [pr EXCEPT !.pc = "done", !.result = result, !.err = err]

\* getCustomParameters returns the map cp.
GcpReturn(pr, cp) ==
    IF pr.op = "provision"
    THEN [pr EXCEPT !.pc = "exists", !.params = cp]
    ELSE Finish([pr EXCEPT !.params = cp], "", NoError)

\* getCustomParameters returns nil and the error e.
GcpFail(pr, e) ==
    IF pr.op = "provision"
    THEN Finish(pr, "", ErrCustomParams \o e)
    ELSE Finish(pr, "", e)

\* getCustomParameters up to its first control-plane call.
GcpEnter(pr, i, s) ==
    IF needsDefaultLookup(i)
    THEN [pr EXCEPT !.pc = "family", !.cont = "lookup", !.marker = ""]
    ELSE GcpReturn(pr, getCustomParameters(i, s, ""))

\* ProvisionCustomParameterGroupIfNecessary going on whatever
\* needCustomParameters says.
ProvisionStartAlways(p) ==
    LET pr == [IdleProc EXCEPT
                  !.op = "provision", !.g0 = groups,
                  !.need = needCustomParameters(inst[p], settings)]
    IN /\ proc[p].pc = "idle"
       /\ proc' = [proc EXCEPT ![p] = GcpEnter(pr, inst[p], settings)]
       /\ UNCHANGED <<inst, settings, cpVars, prev, addressed, modVars, sweep>>

\* ProvisionCustomParameterGroupIfNecessary up to its first control-plane
\* call.
ProvisionStart(p) ==
    LET pr == [IdleProc EXCEPT
                  !.op = "provision", !.g0 = groups,
                  !.need = needCustomParameters(inst[p], settings)]
    IN /\ proc[p].pc = "idle"
       /\ proc' = [proc EXCEPT ![p] =
                      IF ~pr.need THEN Finish(pr, "", NoError)
                      ELSE GcpEnter(pr, inst[p], settings)]
       /\ UNCHANGED <<inst, settings, cpVars, prev, addressed, modVars, sweep>>

\* getCustomParameters called on its own, as its test calls it.
GetCustomParametersStart(p) ==
    LET pr == [IdleProc EXCEPT !.op = "direct", !.g0 = groups]
    IN /\ proc[p].pc = "idle"
       /\ proc' = [proc EXCEPT ![p] = GcpEnter(pr, inst[p], settings)]
       /\ UNCHANGED <<inst, settings, cpVars, prev, addressed, modVars, sweep>>

\* getParameterGroupFamily returns the error e to its caller.
FamilyFail(pr, e) ==
    IF pr.cont = "lookup" THEN GcpFail(pr, e)
    ELSE Finish(pr, "", ErrApplying \o ErrFamily \o e)

\* getParameterGroupFamily without the test of the memoized family.
GetParameterGroupFamilyAgain(p) ==
    LET pr == proc[p]
        i  == inst[p]
    IN
    /\ pr.pc = "family"
    /\ \/ /\ i.DbVersion = ""
          /\ \E ok \in BOOLEAN :
                LET c  == Call("DescribeDBEngineVersions", i.DbType, ok)
                    pc == [pr EXCEPT !.calls = Append(@, c)]
                IN IF ok
                   THEN /\ inst' = [inst EXCEPT ![p].ParameterGroupFamily =
                                        DefaultEngineFamily[i.DbType]]
                        /\ proc' = [proc EXCEPT ![p] =
                                        [pc EXCEPT !.pc = pr.cont]]
                   ELSE /\ proc' = [proc EXCEPT ![p] =
                                FamilyFail(pc, Failed("DescribeDBEngineVersions"))]
                        /\ UNCHANGED inst
       \/ /\ i.DbVersion # ""
          /\ inst' = [inst EXCEPT ![p].ParameterGroupFamily =
                        i.DbType \o VersionToken(i.DbVersion)]
          /\ proc' = [proc EXCEPT ![p].pc = pr.cont]
    /\ UNCHANGED <<settings, cpVars, prev, addressed, modVars, sweep>>

\* getParameterGroupFamily.
GetParameterGroupFamily(p) ==
    LET pr == proc[p]
        i  == inst[p]
    IN
    /\ pr.pc = "family"
    /\ \/ /\ i.ParameterGroupFamily # ""
          /\ proc' = [proc EXCEPT ![p].pc = pr.cont]
          /\ UNCHANGED inst
       \/ /\ i.ParameterGroupFamily = ""
          /\ i.DbVersion = ""
          /\ \E ok \in BOOLEAN :
                LET c  == Call("DescribeDBEngineVersions", i.DbType, ok)
                    pc == [pr EXCEPT !.calls = Append(@, c)]
                IN IF ok
                   THEN /\ inst' = [inst EXCEPT ![p].ParameterGroupFamily =
                                        DefaultEngineFamily[i.DbType]]
                        /\ proc' = [proc EXCEPT ![p] =
                                        [pc EXCEPT !.pc = pr.cont]]
                   ELSE /\ proc' = [proc EXCEPT ![p] =
                                FamilyFail(pc, Failed("DescribeDBEngineVersions"))]
                        /\ UNCHANGED inst
       \/ /\ i.ParameterGroupFamily = ""
          /\ i.DbVersion # ""
          /\ inst' = [inst EXCEPT ![p].ParameterGroupFamily =
                        i.DbType \o VersionToken(i.DbVersion)]
          /\ proc' = [proc EXCEPT ![p].pc = pr.cont]
    /\ UNCHANGED <<settings, cpVars, prev, addressed, modVars, sweep>>

\* The index of the first parameter of the page named paramName, 0 if none.
FirstNamed(parameters, paramName) ==
    LET hits == {k \in 1..Len(parameters) :
                    parameters[k].ParameterName = paramName}
    IN IF hits = {} THEN 0
       ELSE CHOOSE k \in hits : \A j \in hits : k <= j

\* getDefaultEngineParameter returns the value v: the rest of
\* buildCustomSharePreloadLibrariesParam and of getCustomParameters.
LookupReturn(pr, i, s, v) ==
    GcpReturn([pr EXCEPT !.value = v], getCustomParameters(i, s,
        buildCustomSharePreloadLibrariesParam(v, pgCronLibraryName)))

\* The pages the running call has asked for.
Fetches(pr) ==
    Cardinality({k \in 1..Len(pr.calls) :
                    pr.calls[k].op = "DescribeEngineDefaultParameters"})

\* One turn of the loop of getDefaultEngineParameter: a page is fetched and
\* scanned for "shared_preload_libraries".  The loop has no bound of its own;
\* the model follows it for MaxFetches pages.
FetchDefaultsPage(p) ==
    LET pr == proc[p]
        i  == inst[p]
    IN
    /\ pr.pc = "lookup"
    /\ Fetches(pr) < MaxFetches
    /\ \E ok \in BOOLEAN :
          LET c    == Call("DescribeEngineDefaultParameters", pr.marker, ok)
              pc   == [pr EXCEPT !.calls = Append(@, c)]
              page == catalog[pr.marker]
              k    == FirstNamed(page.Parameters, "shared_preload_libraries")
          IN proc' = [proc EXCEPT ![p] =
                IF ~ok
                THEN GcpFail(pc, Failed("DescribeEngineDefaultParameters"))
                ELSE IF k # 0
                THEN IF page.Parameters[k].ParameterValue = NilValue
                     THEN [pc EXCEPT !.pc = "panicked"]
                     ELSE LookupReturn(pc, i, settings,
                                       page.Parameters[k].ParameterValue)
                ELSE IF page.Marker = ""
                THEN LookupReturn(pc, i, settings, "")
                ELSE [pc EXCEPT !.marker = page.Marker]]
    /\ UNCHANGED <<inst, settings, cpVars, prev, addressed, modVars, sweep>>

\* createOrModifyCustomParameterGroup taking the create branch whatever
\* checkIfParameterGroupExists answers.
CheckIfParameterGroupExistsIgnored(p) ==
    LET pr   == proc[p]
        name == pgroupName(inst[p])
    IN
    /\ pr.pc = "exists"
    /\ \E ok \in BOOLEAN :
          /\ ok => name \in DOMAIN groups
          /\ proc' = [proc EXCEPT ![p] =
                [pr EXCEPT
                    !.calls = Append(@, Call("DescribeDBParameters", name, ok)),
                    !.pc = "family",
                    !.cont = "create"]]
    /\ addressed' = addressed \cup {name}
    /\ UNCHANGED <<inst, settings, cpVars, prev, modVars, sweep>>

\* checkIfParameterGroupExists, and the branch createOrModifyCustomParameterGroup
\* takes on its answer.
CheckIfParameterGroupExists(p) ==
    LET pr   == proc[p]
        name == pgroupName(inst[p])
    IN
    /\ pr.pc = "exists"
    /\ \E ok \in BOOLEAN :
          /\ ok => name \in DOMAIN groups
          /\ proc' = [proc EXCEPT ![p] =
                [pr EXCEPT
                    !.calls = Append(@, Call("DescribeDBParameters", name, ok)),
                    !.pc = IF ok THEN "apply" ELSE "family",
                    !.cont = IF ok THEN @ ELSE "create"]]
    /\ addressed' = addressed \cup {name}
    /\ UNCHANGED <<inst, settings, cpVars, prev, modVars, sweep>>

\* CreateDBParameterGroup with its error dropped: the apply follows.
CreateDBParameterGroupUnchecked(p) ==
    LET pr   == proc[p]
        name == pgroupName(inst[p])
    IN
    /\ pr.pc = "create"
    /\ \E ok \in BOOLEAN :
          /\ ok => name \notin DOMAIN groups
          /\ groups' = IF ok
                       THEN MapSet(groups, name,
                              Group(inst[p].ParameterGroupFamily, EmptyMap))
                       ELSE groups
          /\ proc' = [proc EXCEPT ![p] =
                [pr EXCEPT
                    !.calls = Append(@, Call("CreateDBParameterGroup", name, ok)),
                    !.pc = "apply"]]
    /\ addressed' = addressed \cup {name}
    /\ UNCHANGED <<inst, settings, attached, catalog, prev, modVars, sweep>>

\* CreateDBParameterGroup recovering from the rejection of a create for a
\* group that is there: the apply follows.
CreateDBParameterGroupRecovering(p) ==
    LET pr   == proc[p]
        name == pgroupName(inst[p])
    IN
    /\ pr.pc = "create"
    /\ \E ok \in BOOLEAN :
          LET pc == [pr EXCEPT !.calls =
                        Append(@, Call("CreateDBParameterGroup", name, ok))]
          IN /\ ok => name \notin DOMAIN groups
             /\ groups' = IF ok
                          THEN MapSet(groups, name,
                                 Group(inst[p].ParameterGroupFamily, EmptyMap))
                          ELSE groups
             /\ proc' = [proc EXCEPT ![p] =
                   IF ok \/ name \in DOMAIN groups
                   THEN [pc EXCEPT !.pc = "apply"]
                   ELSE Finish(pc, "", ErrApplying \o ErrCreating
                                       \o Failed("CreateDBParameterGroup"))]
    /\ addressed' = addressed \cup {name}
    /\ UNCHANGED <<inst, settings, attached, catalog, prev, modVars, sweep>>

\* CreateDBParameterGroup in the instance's family.
CreateDBParameterGroup(p) ==
    LET pr   == proc[p]
        name == pgroupName(inst[p])
    IN
    /\ pr.pc = "create"
    /\ \E ok \in BOOLEAN :
          LET pc == [pr EXCEPT !.calls =
                        Append(@, Call("CreateDBParameterGroup", name, ok))]
          IN /\ ok => name \notin DOMAIN groups
             /\ groups' = IF ok
                          THEN MapSet(groups, name,
                                 Group(inst[p].ParameterGroupFamily, EmptyMap))
                          ELSE groups
             /\ proc' = [proc EXCEPT ![p] =
                   IF ok THEN [pc EXCEPT !.pc = "apply"]
                   ELSE Finish(pc, "", ErrApplying \o ErrCreating
                                       \o Failed("CreateDBParameterGroup"))]
    /\ addressed' = addressed \cup {name}
    /\ UNCHANGED <<inst, settings, attached, catalog, prev, modVars, sweep>>

\* The parameters createOrModifyCustomParameterGroup applies:
\* customparams[i.DbType].
ParametersOf(customparams, i) ==
    IF i.DbType \in DOMAIN customparams THEN customparams[i.DbType]
    ELSE EmptyMap

\* ModifyDBParameterGroup cleaning up after a failure: the group the call
\* created is deleted again.
ModifyDBParameterGroupRollback(p) ==
    LET pr   == proc[p]
        name == pgroupName(inst[p])
        made == \E k \in 1..Len(pr.calls) :
                    pr.calls[k].op = "CreateDBParameterGroup" /\ pr.calls[k].ok
    IN
    /\ pr.pc = "apply"
    /\ \E ok \in BOOLEAN :
          LET pc == [pr EXCEPT !.calls =
                        Append(@, Call("ModifyDBParameterGroup", name, ok))]
          IN /\ ok => name \in DOMAIN groups
             /\ groups' = IF ok
                          THEN [groups EXCEPT ![name] =
                                  ApplyTo(@, ParametersOf(pr.params, inst[p]))]
                          ELSE IF made THEN MapRemove(groups, name)
                          ELSE groups
             /\ proc' = [proc EXCEPT ![p] =
                   IF ok THEN Finish(pc, name, NoError)
                   ELSE Finish(pc, "", ErrApplying
                                       \o Failed("ModifyDBParameterGroup"))]
    /\ addressed' = addressed \cup {name}
    /\ UNCHANGED <<inst, settings, attached, catalog, prev, modVars, sweep>>

\* ModifyDBParameterGroup with its error dropped: the name is returned.
ModifyDBParameterGroupUnchecked(p) ==
    LET pr   == proc[p]
        name == pgroupName(inst[p])
    IN
    /\ pr.pc = "apply"
    /\ \E ok \in BOOLEAN :
          /\ ok => name \in DOMAIN groups
          /\ groups' = IF ok
                       THEN [groups EXCEPT ![name] =
                               ApplyTo(@, ParametersOf(pr.params, inst[p]))]
                       ELSE groups
          /\ proc' = [proc EXCEPT ![p] =
                Finish([pr EXCEPT !.calls =
                           Append(@, Call("ModifyDBParameterGroup", name, ok))],
                       name, NoError)]
    /\ addressed' = addressed \cup {name}
    /\ UNCHANGED <<inst, settings, attached, catalog, prev, modVars, sweep>>

\* ModifyDBParameterGroup with the custom parameters, and the return of
\* ProvisionCustomParameterGroupIfNecessary.
ModifyDBParameterGroup(p) ==
    LET pr   == proc[p]
        name == pgroupName(inst[p])
    IN
    /\ pr.pc = "apply"
    /\ \E ok \in BOOLEAN :
          LET pc == [pr EXCEPT !.calls =
                        Append(@, Call("ModifyDBParameterGroup", name, ok))]
          IN /\ ok => name \in DOMAIN groups
             /\ groups' = IF ok
                          THEN [groups EXCEPT ![name] =
                                  ApplyTo(@, ParametersOf(pr.params, inst[p]))]
                          ELSE groups
             /\ proc' = [proc EXCEPT ![p] =
                   IF ok THEN Finish(pc, name, NoError)
                   ELSE Finish(pc, "", ErrApplying
                                       \o Failed("ModifyDBParameterGroup"))]
    /\ addressed' = addressed \cup {name}
    /\ UNCHANGED <<inst, settings, attached, catalog, prev, modVars, sweep>>

\* The group of the instance on the control plane, NoGroup when there is none.
NoGroup == Group("", EmptyMap)
GroupOf(g, i) == IF pgroupName(i) \in DOMAIN g THEN g[pgroupName(i)] ELSE NoGroup

\* The caller takes the result; a provisioning call is remembered.
Return(p) ==
    /\ proc[p].pc \in {"done", "panicked"}
    /\ prev' = IF proc[p].op = "provision" /\ proc[p].pc = "done"
               THEN [valid |-> TRUE, inst |-> inst[p], settings |-> settings,
                     result |-> proc[p].result, err |-> proc[p].err,
                     exists |-> pgroupName(inst[p]) \in DOMAIN groups,
                     group |-> GroupOf(groups, inst[p]),
                     created |-> \E k \in 1..Len(proc[p].calls) :
                                    /\ proc[p].calls[k].ok
                                    /\ proc[p].calls[k].op =
                                           "CreateDBParameterGroup"]
               ELSE NoPrev
    /\ proc' = [proc EXCEPT ![p] = IdleProc]
    /\ UNCHANGED <<inst, settings, cpVars, addressed, modVars, sweep>>

\* The instance is modified between two calls (modify; the history of the
\* modify calls is not kept here).
ReconfigureInstance(p, options, plan) ==
    /\ proc[p].pc = "idle"
    /\ modify(inst[p], options, plan).inst # inst[p]
    /\ inst' = [inst EXCEPT ![p] = modify(inst[p], options, plan).inst]
    /\ prev' = NoPrev
    /\ UNCHANGED <<settings, cpVars, proc, addressed, modVars, sweep>>

\* The operator switches the functions feature.
SetSettings(p) ==
    /\ proc[p].pc = "idle"
    /\ settings' = [settings EXCEPT !.EnableFunctionsFeature = ~@]
    /\ prev' = NoPrev
    /\ UNCHANGED <<inst, cpVars, proc, addressed, modVars, sweep>>

\* The instances, settings and control-plane states provisioning starts from.
ProvisionInstances ==
    { [NewInstance("db-1", t) EXCEPT
          !.DbVersion = v, !.EnableFunctions = f,
          !.BinaryLogFormat = b, !.EnablePgCron = c]
      : t \in {"mysql", "postgres", "psql"}, v \in {"", "12.3", "15.4-R2"},
        f \in BOOLEAN, b \in {"", "ROW"}, c \in {Unset, "true"} }

FlagOptions ==
    { [NoOptions EXCEPT !.BinaryLogFormat = b, !.EnablePgCron = c]
      : b \in {"", "MIXED"}, c \in TriState }

\* The groups the control plane may hold for the instance when it starts.
InitialGroups(i) ==
    { EmptyMap,
      MapSet(EmptyMap, pgroupName(i),
             Group(i.DbType \o "5.7",
                   MapSet(EmptyMap, "max_connections", "50"))) }

Init ==
    /\ \E i \in ProvisionInstances :
          /\ inst = [p \in Procs |-> i]
          /\ groups \in InitialGroups(i)
          /\ catalog \in IF i.DbType = "postgres" THEN Catalogs
                         ELSE {CatalogNoLibraries}
    /\ settings \in {[EnableFunctionsFeature |-> b] : b \in BOOLEAN}
    /\ attached = {}
    /\ proc = [p \in Procs |-> IdleProc]
    /\ prev = NoPrev
    /\ addressed = {}
    /\ mPre = NewInstance("db-1", "postgres")
    /\ mOpts = NoOptions
    /\ mPlan = NoPlan
    /\ mErr = "none"
    /\ sweep = IdleSweep

Step(p) ==
    \/ ProvisionStart(p)
    \/ GetCustomParametersStart(p)
    \/ GetParameterGroupFamily(p)
    \/ FetchDefaultsPage(p)
    \/ CheckIfParameterGroupExists(p)
    \/ CreateDBParameterGroup(p)
    \/ ModifyDBParameterGroup(p)
    \/ Return(p)
    \/ \E o \in FlagOptions : ReconfigureInstance(p, o, NoPlan)
    \/ SetSettings(p)

Next == Step(MainProc)

Spec == Init /\ [][Next]_vars

\* The running (or just returned) call of the caller, and its instance.
P == proc[MainProc]
I == inst[MainProc]

Issued(op)    == \E k \in 1..Len(P.calls) : P.calls[k].op = op
Succeeded(op) == \E k \in 1..Len(P.calls) : P.calls[k].op = op /\ P.calls[k].ok
FailedCall(op) ==
    \E k \in 1..Len(P.calls) : P.calls[k].op = op /\ ~P.calls[k].ok
NumIssued(op) == Cardinality({k \in 1..Len(P.calls) : P.calls[k].op = op})

\* C1: for every instance and settings for which needCustomParameters is
\* false, ProvisionCustomParameterGroupIfNecessary returns the empty group
\* name and no error whether or not the group exists, issues no
\* control-plane call and leaves the control plane's groups as they were.
C1_NotNeeded ==
    P.op = "provision" /\ ~needCustomParameters(I, settings) =>
        /\ P.pc = "done"
        /\ P.result = ""
        /\ P.err = NoError
        /\ P.calls = <<>>
        /\ groups = P.g0

\* A call that returned for an instance needing no custom parameters whose
\* group exists on the control plane.
C1_Witness ==
    /\ P.op = "provision"
    /\ P.pc = "done"
    /\ ~needCustomParameters(I, settings)
    /\ pgroupName(I) \in DOMAIN groups
    /\ I.BinaryLogFormat # ""

\* C2: needCustomParameters is true exactly when (mysql and the instance's
\* functions flag and the functions feature) or (mysql and a non-empty binary
\* log format) or (postgres and pg-cron); for every other engine type it is
\* false whatever the other fields are.
C2_NeedTruthTable ==
    P.op = "provision" =>
        /\ P.need <=>
              \/ /\ I.DbType = "mysql"
                 /\ I.EnableFunctions
                 /\ settings.EnableFunctionsFeature
              \/ I.DbType = "mysql" /\ I.BinaryLogFormat # ""
              \/ I.DbType = "postgres" /\ I.EnablePgCron = "true"
        /\ I.DbType \notin {"mysql", "postgres"} => ~P.need

\* needCustomParameters answered false for an instance of another engine with
\* every flag set.
C2_Witness ==
    /\ P.op = "provision"
    /\ I.DbType = "psql"
    /\ I.BinaryLogFormat # ""
    /\ I.EnableFunctions
    /\ settings.EnableFunctionsFeature
    /\ I.EnablePgCron = "true"
    /\ ~P.need

\* getCustomParameters has returned its map for the instance.
ParametersReturned ==
    \/ P.op = "direct" /\ P.pc = "done" /\ P.err = NoError
    \/ P.op = "provision" /\ P.pc \in {"exists", "create", "apply"}

\* C3: for every mysql instance and every settings, getCustomParameters
\* returns a mysql map that has log_bin_trust_function_creators, "1" exactly
\* when the instance's functions flag and the functions feature are both
\* true and "0" otherwise, that has binlog_format, equal to the instance's
\* binary log format, exactly when that format is non-empty, and no other key.
C3_MysqlParameters ==
    /\ P.op = "direct" /\ P.pc = "done" /\ I.DbType = "mysql" =>
          P.err = NoError
    /\ ParametersReturned /\ I.DbType = "mysql" =>
        /\ DOMAIN P.params = {"mysql"}
        /\ LET m == P.params["mysql"] IN
            /\ "log_bin_trust_function_creators" \in DOMAIN m
            /\ m["log_bin_trust_function_creators"] =
                  IF I.EnableFunctions /\ settings.EnableFunctionsFeature
                  THEN "1" ELSE "0"
            /\ "binlog_format" \in DOMAIN m <=> I.BinaryLogFormat # ""
            /\ I.BinaryLogFormat # "" =>
                  m["binlog_format"] = I.BinaryLogFormat
            /\ DOMAIN m \subseteq
                  {"log_bin_trust_function_creators", "binlog_format"}

\* getCustomParameters returned the map of a mysql instance with no flag set.
C3_Witness ==
    /\ P.op = "direct"
    /\ P.pc = "done"
    /\ I.DbType = "mysql"
    /\ ~I.EnableFunctions
    /\ I.BinaryLogFormat = ""
    /\ P.params = MapSet(EmptyMap, "mysql",
                    MapSet(EmptyMap, "log_bin_trust_function_creators", "0"))

GroupCalls ==
    {"DescribeDBParameters", "CreateDBParameterGroup", "ModifyDBParameterGroup"}

SecondRun ==
    /\ P.op = "provision"
    /\ P.pc = "done"
    /\ prev.valid
    /\ prev.err = NoError
    /\ prev.result # ""

\* C10 as stated: a second run with the same instance and settings after a
\* successful first run returns the same group name, issues no create call
\* and leaves the group's family and parameter values as the first run left
\* them, an apply call being issued again.
C10_Original ==
    SecondRun =>
        /\ P.result = prev.result
        /\ ~Issued("CreateDBParameterGroup")
        /\ GroupOf(groups, I) = prev.group
        /\ Issued("ModifyDBParameterGroup")

\* C10 as amended: a second run with the same instance and settings after a
\* successful first run leaves the group's family and parameter values as the
\* first run left them; it issues a create call only when its existence
\* query failed, and that create does not succeed; and when it returns no
\* error it returns the same group name, having issued no create call and
\* exactly one apply call, which succeeded.
C10_Idempotent ==
    SecondRun =>
        /\ GroupOf(groups, I) = prev.group
        /\ Issued("CreateDBParameterGroup") =>
              FailedCall("DescribeDBParameters")
        /\ ~Succeeded("CreateDBParameterGroup")
        /\ P.err = NoError =>
              /\ P.result = prev.result
              /\ ~Issued("CreateDBParameterGroup")
              /\ NumIssued("ModifyDBParameterGroup") = 1
              /\ Succeeded("ModifyDBParameterGroup")

\* A second run that returned the first run's group name.
C10_Witness ==
    /\ SecondRun
    /\ P.err = NoError
    /\ P.result = prev.result
    /\ Succeeded("ModifyDBParameterGroup")
    /\ GroupOf(groups, I) = prev.group
    /\ "shared_preload_libraries" \in DOMAIN prev.group.params

\* The pages of the engine-default catalog in the order of their markers, up
\* to the first page without a marker (at most n pages after the first).
RECURSIVE PagesFrom(_, _, _)
PagesFrom(cat, marker, n) ==
    IF cat[marker].Marker = "" \/ n = 0 THEN <<cat[marker]>>
    ELSE <<cat[marker]>> \o PagesFrom(cat, cat[marker].Marker, n - 1)

\* The parameters of those pages, in order.
RECURSIVE AllParameters(_)
AllParameters(pages) ==
    IF Len(pages) = 0 THEN <<>>
    ELSE Head(pages).Parameters \o AllParameters(Tail(pages))

CatalogParameters == AllParameters(PagesFrom(catalog, "", Cardinality(DOMAIN catalog)))

\* The catalog has a last page.
CatalogEnds ==
    LET pages == PagesFrom(catalog, "", Cardinality(DOMAIN catalog))
    IN pages[Len(pages)].Marker = ""

Named(paramName) ==
    {k \in 1..Len(CatalogParameters) :
        CatalogParameters[k].ParameterName = paramName}

\* The engine default of paramName: the value of the first parameter of that
\* name in the catalog, "" when there is none.
EngineDefault(paramName) ==
    IF Named(paramName) = {} THEN ""
    ELSE LET k == CHOOSE k \in Named(paramName) :
                     \A j \in Named(paramName) : k <= j
         IN CatalogParameters[k].ParameterValue

\* The derived parameter set of the caller's instance for its engine type,
\* under the current settings and engine defaults.
Derived ==
    ParametersOf(
        getCustomParameters(I, settings,
            buildCustomSharePreloadLibrariesParam(
                EngineDefault("shared_preload_libraries"), pgCronLibraryName)),
        I)

\* The group of the caller's instance holds the derived value of every
\* derived parameter.
Converged ==
    /\ pgroupName(I) \in DOMAIN groups
    /\ \A k \in DOMAIN Derived :
          /\ k \in DOMAIN groups[pgroupName(I)].params
          /\ groups[pgroupName(I)].params[k] = Derived[k]

\* A provisioning call returned without error.
ReturnedNoError == P.op = "provision" /\ P.pc = "done" /\ P.err = NoError

\* The group of the caller's instance existed when the call began and held a
\* value for every derived parameter.
GroupWasProvisioned ==
    /\ pgroupName(I) \in DOMAIN P.g0
    /\ DOMAIN Derived \subseteq DOMAIN P.g0[pgroupName(I)].params

\* C11 as stated: after any changes of the instance's flags or of the
\* settings, once a group exists for the instance, every call that returns
\* without error leaves the group's parameter values equal to the derived
\* parameters of the current instance and settings.  (Read in the claim's
\* favour: only a group that already held the derived parameters, and only
\* the derived parameters are compared.)
C11_Original ==
    ReturnedNoError /\ GroupWasProvisioned => Converged

\* C11 as amended: every call for which needCustomParameters is true and
\* that returns without error leaves the group existing with every derived
\* parameter at its derived value, whatever the group held before; a call
\* for which needCustomParameters is false leaves the group as it was.
C11_Convergent ==
    ReturnedNoError =>
        /\ P.need => Converged
        /\ ~P.need => groups = P.g0

\* A call after the functions feature was switched off brought the group of
\* a mysql instance from "1" to "0".
C11_Witness ==
    /\ ReturnedNoError
    /\ P.need
    /\ I.DbType = "mysql"
    /\ pgroupName(I) \in DOMAIN P.g0
    /\ "log_bin_trust_function_creators" \in DOMAIN P.g0[pgroupName(I)].params
    /\ P.g0[pgroupName(I)].params["log_bin_trust_function_creators"] = "1"
    /\ groups[pgroupName(I)].params["log_bin_trust_function_creators"] = "0"
    /\ ~settings.EnableFunctionsFeature

IsGroupCall(c) == c.op \in GroupCalls

\* The calls on the parameter group that the running call has made, in order.
GroupOps ==
    LET cs == SelectSeq(P.calls, IsGroupCall)
    IN [k \in 1..Len(cs) |-> cs[k].op]

\* The last call made failed and was a call of op.
LastFailed(op) ==
    /\ P.calls # <<>>
    /\ P.calls[Len(P.calls)].op = op
    /\ ~P.calls[Len(P.calls)].ok

\* The order of createOrModifyCustomParameterGroup: the existence query, then
\* at most one create, then at most one apply.
InOrder ==
    GroupOps \in
        { <<>>,
          <<"DescribeDBParameters">>,
          <<"DescribeDBParameters", "CreateDBParameterGroup">>,
          <<"DescribeDBParameters", "ModifyDBParameterGroup">>,
          <<"DescribeDBParameters", "CreateDBParameterGroup",
            "ModifyDBParameterGroup">> }

\* A group name is returned only after one apply call for it, which succeeded.
NameAfterApply ==
    P.pc = "done" /\ P.result # "" =>
        /\ NumIssued("ModifyDBParameterGroup") = 1
        /\ P.calls[Len(P.calls)] = Call("ModifyDBParameterGroup", P.result, TRUE)

\* C14 as stated: a call with needCustomParameters true follows the order
\* existence query, create, apply; a create call is issued if and only if the
\* existence query failed, at most once and before the apply; and a group
\* name is returned only after exactly one apply call for that name succeeded.
C14_Original ==
    P.op = "provision" =>
        /\ InOrder
        /\ P.pc = "done" =>
              (Issued("CreateDBParameterGroup")
                  <=> FailedCall("DescribeDBParameters"))
        /\ NameAfterApply

\* C14 as amended: a call with needCustomParameters true follows the order
\* existence query, create, apply; a create call is issued only if the
\* existence query failed, and then unless the family resolution in between
\* failed; it is issued at most once, before the apply, and the apply follows
\* it only when it succeeded; and a group name is returned only after exactly
\* one apply call for that name succeeded.
C14_Order ==
    P.op = "provision" =>
        /\ InOrder
        /\ Issued("CreateDBParameterGroup") =>
              FailedCall("DescribeDBParameters")
        /\ P.pc = "done" /\ FailedCall("DescribeDBParameters") =>
              \/ Issued("CreateDBParameterGroup")
              \/ LastFailed("DescribeDBEngineVersions")
        /\ Issued("ModifyDBParameterGroup") =>
              \/ Succeeded("DescribeDBParameters")
              \/ Succeeded("CreateDBParameterGroup")
        /\ NameAfterApply

\* A call that found no group, created it, applied the parameters and
\* returned its name.
C14_Witness ==
    /\ P.op = "provision"
    /\ P.pc = "done"
    /\ P.result = pgroupName(I)
    /\ FailedCall("DescribeDBParameters")
    /\ Succeeded("CreateDBParameterGroup")
    /\ Succeeded("ModifyDBParameterGroup")
    /\ pgroupName(I) \notin DOMAIN P.g0

\* The group was observed absent and the family resolution or the create
\* call that followed failed.
CreationFailed ==
    /\ P.op = "provision"
    /\ P.pc = "done"
    /\ FailedCall("DescribeDBParameters")
    /\ \/ LastFailed("DescribeDBEngineVersions")
       \/ FailedCall("CreateDBParameterGroup")

\* C15: when the group is observed absent and the family resolution or the
\* create call fails, the call returns the empty group name with an error
\* that carries the context of the failed step, and it issues no apply call.
C15_CreationFailureFatal ==
    CreationFailed =>
        /\ P.result = ""
        /\ P.err # NoError
        /\ \/ HasPrefix(P.err, ErrApplying \o ErrFamily)
           \/ HasPrefix(P.err, ErrApplying \o ErrCreating)
        /\ ~Issued("ModifyDBParameterGroup")

\* A create call was rejected for a group that was there while the existence
\* query failed.
C15_Witness ==
    /\ CreationFailed
    /\ FailedCall("CreateDBParameterGroup")
    /\ pgroupName(I) \in DOMAIN groups
    /\ P.result = ""
    /\ HasPrefix(P.err, ErrApplying \o ErrCreating)

\* C17: getDefaultEngineParameter always terminates: a lookup that goes on
\* after a page does so only with that page's non-empty marker, and a lookup
\* is guarded against a control plane that hands out a marker with every
\* page: it has ended, with an error, once it has fetched a bounded number
\* of pages (here MaxFetches, the most the model follows a lookup for).
C17_LookupTerminates ==
    /\ P.pc = "lookup" /\ Fetches(P) > 0 => P.marker # ""
    /\ Fetches(P) >= MaxFetches => P.pc # "lookup"

\* The page fetches of the running call, in order.
IsFetch(c) == c.op = "DescribeEngineDefaultParameters"
FetchCalls == SelectSeq(P.calls, IsFetch)

\* The call at hand has been through getDefaultEngineParameter's loop.
LookupOver ==
    /\ P.op \in {"provision", "direct"}
    /\ Fetches(P) > 0
    /\ P.pc # "lookup"

\* The pages a lookup of paramName needs: those up to the first that holds
\* the name, all of them when none does.
PagesNeeded(paramName) ==
    LET pages == PagesFrom(catalog, "", Cardinality(DOMAIN catalog))
        hits  == {k \in 1..Len(pages) :
                    FirstNamed(pages[k].Parameters, paramName) # 0}
    IN IF hits = {} THEN Len(pages)
       ELSE CHOOSE k \in hits : \A j \in hits : k <= j

\* C18: getDefaultEngineParameter pages through the engine-default catalog in
\* order, each fetch passing the marker of the page before; with no failed
\* fetch it returns the value of the first parameter of the name, having
\* fetched no page after the one that holds it, and it returns the empty
\* string and no error when no page up to the first without a marker holds
\* the name; a failed fetch returns that error.
C18_LookupResult ==
    /\ \A k \in 1..Len(FetchCalls) :
          FetchCalls[k].arg =
              IF k = 1 THEN "" ELSE catalog[FetchCalls[k - 1].arg].Marker
    /\ LookupOver /\ ~FailedCall("DescribeEngineDefaultParameters") =>
          /\ P.pc # "panicked"
          /\ P.value = EngineDefault("shared_preload_libraries")
          /\ Fetches(P) = PagesNeeded("shared_preload_libraries")
          /\ P.op = "direct" => P.pc = "done" /\ P.err = NoError
    /\ LookupOver /\ FailedCall("DescribeEngineDefaultParameters") =>
          /\ P.pc = "done"
          /\ P.op = "direct" =>
                P.err = Failed("DescribeEngineDefaultParameters")
          /\ P.op = "provision" =>
                P.err = ErrCustomParams
                            \o Failed("DescribeEngineDefaultParameters")

\* C18 for the parameters that have a value: as C18, for a catalog whose
\* first parameter of the name has one.
LookupResultOfValues ==
    EngineDefault("shared_preload_libraries") # NilValue => C18_LookupResult

\* getCustomParameters returned the map for a postgres instance.
PostgresReturned == ParametersReturned /\ I.DbType = "postgres"

\* C20: for a postgres instance with pg-cron, getCustomParameters, after a
\* lookup without a failed fetch, returns a postgres map whose
\* shared_preload_libraries is "pg_cron" alone when the engine default is
\* empty or not found and "pg_cron," followed by the engine default
\* otherwise; without pg-cron the postgres map has no key; and a lookup error
\* is returned by getCustomParameters and, wrapped, by the provisioning call,
\* no call on the group being issued.
C20_PreloadLibraries ==
    /\ /\ needsDefaultLookup(I)
       /\ LookupOver
       /\ ~FailedCall("DescribeEngineDefaultParameters")
       => /\ P.pc # "panicked"
          /\ DOMAIN P.params = {"postgres"}
          /\ DOMAIN P.params["postgres"] = {"shared_preload_libraries"}
          /\ P.params["postgres"]["shared_preload_libraries"] =
                IF EngineDefault("shared_preload_libraries") = ""
                THEN "pg_cron"
                ELSE "pg_cron," \o EngineDefault("shared_preload_libraries")
    /\ PostgresReturned /\ ~PgCronOn(I) => P.params["postgres"] = EmptyMap
    /\ \/ FailedCall("DescribeEngineDefaultParameters")
       \/ (LastFailed("DescribeDBEngineVersions") /\ P.cont = "lookup")
       => /\ P.pc = "done"
          /\ P.result = ""
          /\ P.err # NoError
          /\ GroupOps = <<>>
          /\ groups = P.g0

\* C20 for the engine defaults that have a value.
PreloadLibrariesOfValues ==
    EngineDefault("shared_preload_libraries") # NilValue => C20_PreloadLibraries

\* The leading major(.minor) token of the versions of the instances.
MajorMinor ==
    [v \in {"12.3", "15.4-R2"} |-> IF v = "12.3" THEN "12.3" ELSE "15.4"]

\* The caller's running call after the step, and its instance.
Pn == proc'[MainProc]
In == inst'[MainProc]

\* C19: getParameterGroupFamily is memoized and avoids round trips: with the
\* family set it changes nothing and makes no call; with a version it makes
\* no call and sets the family to the engine type followed by the leading
\* major(.minor) token of the version; only with no family and no version
\* does it ask for the default engine version, and when that call fails the
\* error is returned and the family is left empty.
C19_FamilyMemoized ==
    [][P.pc = "family" =>
        /\ I.ParameterGroupFamily # "" =>
              /\ In = I
              /\ Pn.calls = P.calls
              /\ Pn.pc = P.cont
        /\ I.ParameterGroupFamily = "" /\ I.DbVersion # "" =>
              /\ In = [I EXCEPT !.ParameterGroupFamily =
                                   I.DbType \o MajorMinor[I.DbVersion]]
              /\ Pn.calls = P.calls
              /\ Pn.pc = P.cont
        /\ I.ParameterGroupFamily = "" /\ I.DbVersion = "" =>
              \/ /\ Pn.calls = Append(P.calls,
                        Call("DescribeDBEngineVersions", I.DbType, TRUE))
                 /\ In = [I EXCEPT !.ParameterGroupFamily =
                                      DefaultEngineFamily[I.DbType]]
                 /\ Pn.pc = P.cont
              \/ /\ Pn.calls = Append(P.calls,
                        Call("DescribeDBEngineVersions", I.DbType, FALSE))
                 /\ In = I
                 /\ Pn.pc = "done"
                 /\ Pn.result = ""
                 /\ HasPrefix(Pn.err, IF P.op = "direct" THEN ""
                                      ELSE IF P.cont = "lookup"
                                           THEN ErrCustomParams
                                           ELSE ErrApplying \o ErrFamily)
    ]_vars

\* A call went from its failed existence query to the create with the family
\* an earlier call had asked the control plane for, and asked no second time.
C19_Witness ==
    /\ P.op = "provision"
    /\ P.pc = "create"
    /\ I.DbVersion = ""
    /\ I.ParameterGroupFamily = DefaultEngineFamily[I.DbType]
    /\ ~Issued("DescribeDBEngineVersions")

----------------------------------------------------------------------------
(* The modify calls on one instance record. *)

InitModify ==
    /\ \E i \in ModifyInstances :
          inst = [p \in Procs |->
                    IF p = MainProc THEN i ELSE NewInstance("db-1", "postgres")]
    /\ settings = [EnableFunctionsFeature |-> FALSE]
    /\ groups = EmptyMap
    /\ attached = {}
    /\ catalog = <<>>
    /\ proc = [p \in Procs |-> IdleProc]
    /\ prev = NoPrev
    /\ addressed = {}
    /\ mPre = inst[MainProc]
    /\ mOpts = NoOptions
    /\ mPlan = NoPlan
    /\ mErr = "none"
    /\ sweep = IdleSweep

\* i.modify(options, plan, settings) on the caller's record, between two
\* calls of the caller.
ModifyInstance(p, options, plan) ==
    LET r == modify(inst[p], options, plan) IN
    /\ proc[p].pc = "idle"
    /\ inst' = [inst EXCEPT ![p] = r.inst]
    /\ mPre' = inst[p]
    /\ mOpts' = options
    /\ mPlan' = plan
    /\ mErr' = r.err
    /\ prev' = NoPrev
    /\ UNCHANGED <<settings, cpVars, proc, addressed, sweep>>

NextModify ==
    \E o \in ModifyOptions, plan \in ModifyPlans :
        ModifyInstance(MainProc, o, plan)

SpecModify == InitModify /\ [][NextModify]_vars

\* A modify call has been made.
Modified == mErr # "none"

\* The record the last modify call left.
mPost == inst[MainProc]

\* C4: modify with options.storage = 0 never changes the storage; with
\* 0 < options.storage < instance.storage it returns the validation error and
\* leaves the storage unchanged; with options.storage > instance.storage it
\* returns no error and sets the storage to exactly options.storage.
C4_StoragePolicy ==
    Modified =>
        /\ (mOpts.AllocatedStorage = 0 =>
                mPost.AllocatedStorage = mPre.AllocatedStorage)
        /\ (/\ 0 < mOpts.AllocatedStorage
            /\ mOpts.AllocatedStorage < mPre.AllocatedStorage
            => /\ mErr = ErrDecrease
               /\ mPost.AllocatedStorage = mPre.AllocatedStorage)
        /\ (mOpts.AllocatedStorage > mPre.AllocatedStorage =>
                /\ mErr = NoError
                /\ mPost.AllocatedStorage = mOpts.AllocatedStorage)

\* A modify call that asked for less storage than the instance has.
C4_Witness ==
    /\ Modified
    /\ 0 < mOpts.AllocatedStorage
    /\ mOpts.AllocatedStorage < mPre.AllocatedStorage
    /\ mErr = ErrDecrease
    /\ mPost.AllocatedStorage = mPre.AllocatedStorage

C6_Case ==
    /\ Modified
    /\ 0 < mOpts.AllocatedStorage
    /\ mOpts.AllocatedStorage < mPre.AllocatedStorage
    /\ mOpts.BackupRetentionPeriod # 0
    /\ mOpts.BinaryLogFormat # ""
    /\ mOpts.EnablePgCron # Unset
    /\ mPlan.DbVersion # ""

\* C6: a modify call that asks for an illegal storage decrease together with
\* a retention, a binary log format, a pg-cron flag and a plan version
\* returns the storage error and leaves the instance with the new retention,
\* binary log format, pg-cron value and version, and with the old storage.
C6_NoRollback ==
    C6_Case =>
        /\ mErr = ErrDecrease
        /\ mPost.AllocatedStorage = mPre.AllocatedStorage
        /\ mPost.BackupRetentionPeriod = mOpts.BackupRetentionPeriod
        /\ mPost.BinaryLogFormat = mOpts.BinaryLogFormat
        /\ mPost.EnablePgCron = mOpts.EnablePgCron
        /\ mPost.DbVersion = mPlan.DbVersion

\* Such a call changed the retention and the pg-cron value it found.
C6_Witness ==
    /\ C6_Case
    /\ mErr = ErrDecrease
    /\ mPost.BackupRetentionPeriod # mPre.BackupRetentionPeriod
    /\ mPost.EnablePgCron # mPre.EnablePgCron
    /\ mPost.DbVersion # mPre.DbVersion

\* C12: modify with options.retention = 0 leaves the backup retention period
\* unchanged; with any other options.retention it sets the retention to
\* exactly that value, also when it is smaller than the existing one, and the
\* retention is never a reason for an error (modify returns an error only for
\* a storage decrease).
C12_RetentionPolicy ==
    Modified =>
        /\ (mOpts.BackupRetentionPeriod = 0 =>
                mPost.BackupRetentionPeriod = mPre.BackupRetentionPeriod)
        /\ (mOpts.BackupRetentionPeriod # 0 =>
                mPost.BackupRetentionPeriod = mOpts.BackupRetentionPeriod)
        /\ (mErr # NoError =>
                /\ 0 < mOpts.AllocatedStorage
                /\ mOpts.AllocatedStorage < mPre.AllocatedStorage)

\* A modify call that lowered the retention and returned no error.
C12_Witness ==
    /\ Modified
    /\ 0 < mOpts.BackupRetentionPeriod
    /\ mOpts.BackupRetentionPeriod < mPre.BackupRetentionPeriod
    /\ mPost.BackupRetentionPeriod = mOpts.BackupRetentionPeriod
    /\ mErr = NoError

\* C13: after a modify call whose plan has a non-empty version the instance's
\* version is the plan's, whatever it was before; after a modify call whose
\* plan has no version the instance's version is what it was.
C13_PlanVersion ==
    Modified =>
        /\ (mPlan.DbVersion # "" => mPost.DbVersion = mPlan.DbVersion)
        /\ (mPlan.DbVersion = "" => mPost.DbVersion = mPre.DbVersion)

\* A modify call whose plan replaced another version of the instance.
C13_Witness ==
    /\ Modified
    /\ mPre.DbVersion # ""
    /\ mPlan.DbVersion # ""
    /\ mPre.DbVersion # mPlan.DbVersion
    /\ mPost.DbVersion = mPlan.DbVersion

----------------------------------------------------------------------------
(* cleanupCustomParameterGroups: one listing page or one group a step. *)

\* regexp.Match(pGroupPrefix, name), without the ^ of the pattern.
matchedAnywhere(name) ==
    \E k \in 1..Len(name) :
        HasPrefix(SubSeq(name, k, Len(name)), pGroupPrefix)

\* regexp.Match("^"+pGroupPrefix, name).
matched(name) == HasPrefix(name, pGroupPrefix)

\* What DeleteDBParameterGroup can return for the group: nil ("ok") or the
\* code of the awserr.Error (every error of the client is one, so that
\* err.(awserr.Error) holds).
DeleteOutcomes(name) ==
    (IF name \notin DOMAIN groups THEN {"DBParameterGroupNotFound"}
     ELSE IF name \in attached THEN {"InvalidDBParameterGroupState"}
     ELSE {"ok"})
    \cup {"Throttling"}

\* The callback asking for no further page once a delete of the page failed
\* as in use.
callbackResultStopInUse(sw) ==
    \A k \in 1..Len(sw.deletes) :
        \/ sw.deletes[k].outcome # "InvalidDBParameterGroupState"
        \/ \A j \in 1..Len(sw.listing[sw.page]) :
              sw.listing[sw.page][j] # sw.deletes[k].name

\* What the callback returns at the end of a page: true, for the next page.
callbackResult(sw) == TRUE

\* What the callback logs for the outcome of a delete.
deleteLog(name, outcome) ==
    IF outcome = "ok" THEN <<[msg |-> "cleaned up", name |-> name]>>
    ELSE IF outcome # "InvalidDBParameterGroupState"
         THEN <<[msg |-> "error cleaning up", name |-> name]>>
         ELSE <<>>

\* The pages DescribeDBParameterGroupsPages hands to the callback for the
\* groups in the given order; a listing of no group is one empty page.
PagesOf(order) ==
    LET n  == Len(order)
        np == IF n = 0 THEN 1 ELSE (n + PageSize - 1) \div PageSize
    IN [k \in 1..np |->
          SubSeq(order, (k - 1) * PageSize + 1,
                 IF k * PageSize < n THEN k * PageSize ELSE n)]

Orders(S) ==
    {f \in [1..Cardinality(S) -> S] :
        \A a, b \in 1..Cardinality(S) : a # b => f[a] # f[b]}

\* The sweep starts: the control plane lists its groups in some order.
SweepStart ==
    /\ sweep.pc = "idle"
    /\ \E order \in Orders(DOMAIN groups) :
          sweep' = [IdleSweep EXCEPT
                       !.pc = "fetch", !.listing = PagesOf(order),
                       !.g0 = groups]
    /\ UNCHANGED <<inst, settings, cpVars, provVars, modVars>>

\* The sweep given up at a delete that failed with a real fault.
AdvanceAbortOnFault(sw) ==
    IF /\ sw.deletes # <<>>
       /\ sw.deletes[Len(sw.deletes)].name = sw.listing[sw.page][sw.idx]
       /\ sw.deletes[Len(sw.deletes)].outcome
             \notin {"ok", "InvalidDBParameterGroupState"}
    THEN [sw EXCEPT !.pc = "done"]
    ELSE IF sw.idx < Len(sw.listing[sw.page]) THEN [sw EXCEPT !.idx = @ + 1]
    ELSE IF sw.page < Len(sw.listing) /\ callbackResult(sw)
         THEN [sw EXCEPT !.pc = "fetch", !.page = @ + 1, !.idx = 1]
         ELSE [sw EXCEPT !.pc = "done"]

\* The sweep position after the group at hand.
Advance(sw) ==
    IF sw.idx < Len(sw.listing[sw.page]) THEN [sw EXCEPT !.idx = @ + 1]
    ELSE IF sw.page < Len(sw.listing) /\ callbackResult(sw)
         THEN [sw EXCEPT !.pc = "fetch", !.page = @ + 1, !.idx = 1]
         ELSE [sw EXCEPT !.pc = "done"]

\* DescribeDBParameterGroupsPages fetches the next page.
SweepFetchPage ==
    /\ sweep.pc = "fetch"
    /\ \E ok \in BOOLEAN :
          sweep' =
            IF ~ok
            THEN [sweep EXCEPT
                     !.pc = "done", !.listErr = TRUE,
                     !.logged = Append(@, [msg |-> "could not retrieve list",
                                           name |-> ""])]
            ELSE IF Len(sweep.listing[sweep.page]) = 0
                 THEN [sweep EXCEPT !.pc = "done"]
                 ELSE [sweep EXCEPT !.pc = "page", !.idx = 1]
    /\ UNCHANGED <<inst, settings, cpVars, provVars, modVars>>

\* The callback's loop body for one group of the page.
SweepGroup ==
    LET name == sweep.listing[sweep.page][sweep.idx] IN
    /\ sweep.pc = "page"
    /\ IF matched(name)
       THEN \E outcome \in DeleteOutcomes(name) :
              LET sw == [sweep EXCEPT
                            !.deletes = Append(@, [name |-> name,
                                                   outcome |-> outcome]),
                            !.logged = @ \o deleteLog(name, outcome)]
              IN /\ groups' = IF outcome = "ok" THEN MapRemove(groups, name)
                              ELSE groups
                 /\ sweep' = Advance(sw)
       ELSE /\ sweep' = Advance(sweep)
            /\ UNCHANGED groups
    /\ UNCHANGED <<inst, settings, attached, catalog, provVars, modVars>>

\* The sweep is over; no state is kept for the next one.
SweepReturn ==
    /\ sweep.pc = "done"
    /\ sweep' = IdleSweep
    /\ UNCHANGED <<inst, settings, cpVars, provVars, modVars>>

\* The instance a group is attached to is deleted.
Detach ==
    /\ sweep.pc = "idle"
    /\ \E n \in attached : attached' = attached \ {n}
    /\ UNCHANGED <<inst, settings, groups, catalog, provVars, modVars, sweep>>

BrokerGroups  == {"cg-aws-broker-db1", "cg-aws-broker-db2"}
ForeignGroups == {"default.mysql8.0", "x-cg-aws-broker-db1"}

InitSweep ==
    /\ \E S \in SUBSET (BrokerGroups \cup ForeignGroups) :
          /\ groups = [n \in S |-> Group("mysql8.0", EmptyMap)]
          /\ attached \in SUBSET (S \cap BrokerGroups)
    /\ inst = [p \in Procs |-> NewInstance("db-1", "mysql")]
    /\ settings = [EnableFunctionsFeature |-> FALSE]
    /\ catalog = CatalogNoLibraries
    /\ proc = [p \in Procs |-> IdleProc]
    /\ prev = NoPrev
    /\ addressed = {}
    /\ mPre = NewInstance("db-1", "postgres")
    /\ mOpts = NoOptions
    /\ mPlan = NoPlan
    /\ mErr = "none"
    /\ sweep = IdleSweep

NextSweep ==
    \/ SweepStart
    \/ SweepFetchPage
    \/ SweepGroup
    \/ SweepReturn
    \/ Detach

SpecSweep == InitSweep /\ [][NextSweep]_vars

\* The names of the running sweep's listing, page after page.
RECURSIVE Flatten(_)
Flatten(pages) ==
    IF Len(pages) = 0 THEN <<>> ELSE Head(pages) \o Flatten(Tail(pages))

Listed == Flatten(sweep.listing)

\* The number of listed groups the callback has dealt with.
Handled ==
    IF sweep.pc = "page" THEN (sweep.page - 1) * PageSize + sweep.idx - 1
    ELSE IF sweep.pc = "fetch" \/ sweep.listErr
         THEN (sweep.page - 1) * PageSize
         ELSE Len(Listed)

HasBrokerPrefix(name) ==
    Len(name) >= 14 /\ SubSeq(name, 1, 14) = "cg-aws-broker-"

DeleteCount(name) ==
    Cardinality({k \in 1..Len(sweep.deletes) : sweep.deletes[k].name = name})

\* C7: during a sweep no delete call is issued for a group whose name does
\* not start with the broker's prefix, on any page and whatever the outcome
\* of the deletes of other groups; such a group stays on the control plane.
C7_ForeignNeverDeleted ==
    /\ \A k \in 1..Len(sweep.deletes) : HasBrokerPrefix(sweep.deletes[k].name)
    /\ \A n \in DOMAIN sweep.g0 : ~HasBrokerPrefix(n) => n \in DOMAIN groups

\* A sweep ended in which deletes succeeded and failed and a group holding
\* the prefix inside its name was listed on the second page.
C7_Witness ==
    /\ sweep.pc = "done"
    /\ Len(sweep.listing) = 2
    /\ \E j \in 1..Len(sweep.listing[2]) :
          sweep.listing[2][j] = "x-cg-aws-broker-db1"
    /\ "x-cg-aws-broker-db1" \in DOMAIN groups
    /\ \E k \in 1..Len(sweep.deletes) : sweep.deletes[k].outcome = "ok"
    /\ \E k \in 1..Len(sweep.deletes) : sweep.deletes[k].outcome # "ok"

\* C8: a delete that fails as in use does not end the sweep: the delete calls
\* of a sweep are, in order, one for each group with the broker prefix that
\* the callback has dealt with; a sweep whose listing did not fail ends only
\* when it has dealt with every listed group, those after a group in use
\* included; a group whose delete succeeded is gone, and a delete fails as in
\* use only for an attached group, which stays.
C8_InUseDoesNotAbort ==
    /\ [k \in 1..Len(sweep.deletes) |-> sweep.deletes[k].name]
          = SelectSeq(SubSeq(Listed, 1, Handled), HasBrokerPrefix)
    /\ sweep.pc = "done" /\ ~sweep.listErr => Handled = Len(Listed)
    /\ \A k \in 1..Len(sweep.deletes) :
          LET d == sweep.deletes[k] IN
          /\ DeleteCount(d.name) = 1
          /\ d.outcome = "ok" => d.name \notin DOMAIN groups
          /\ d.name \in DOMAIN sweep.g0 /\ d.name \notin attached =>
                d.outcome \in {"ok", "Throttling"}
          /\ d.outcome = "InvalidDBParameterGroupState" =>
                d.name \in attached /\ d.name \in DOMAIN groups

\* A sweep ended whose first delete failed as in use and whose second, of a
\* group listed on the next page, succeeded.
C8_Witness ==
    /\ sweep.pc = "done"
    /\ ~sweep.listErr
    /\ Len(sweep.deletes) = 2
    /\ sweep.deletes[1].outcome = "InvalidDBParameterGroupState"
    /\ sweep.deletes[2].outcome = "ok"
    /\ sweep.deletes[1].name \in DOMAIN groups
    /\ sweep.deletes[2].name \notin DOMAIN groups
    /\ \E j \in 1..Len(sweep.listing[1]) :
          sweep.listing[1][j] = sweep.deletes[1].name
    /\ Len(sweep.listing) = 2
    /\ \E j \in 1..Len(sweep.listing[2]) :
          sweep.listing[2][j] = sweep.deletes[2].name

\* A delete outcome that is a failure other than "in use".
IsFault(d) == d.outcome \notin {"ok", "InvalidDBParameterGroupState"}

IsFaultLog(l) == l.msg = "error cleaning up"

\* C16: a delete that fails with an error other than the "in use" code is
\* logged, and only such a delete is logged as an error; and whatever the
\* failures of the deletes, a sweep whose listing did not fail ends having
\* made one delete attempt for every listed group with the broker prefix,
\* those after a failed delete on the same page and on the later pages
\* included.
C16_FaultLoggedSweepContinues ==
    /\ LET faults == SelectSeq(sweep.deletes, IsFault)
           logs   == SelectSeq(sweep.logged, IsFaultLog)
       IN /\ Len(logs) = Len(faults)
          /\ \A k \in 1..Len(faults) : logs[k].name = faults[k].name
    /\ sweep.pc = "done" /\ ~sweep.listErr =>
          \A k \in 1..Len(Listed) :
              HasBrokerPrefix(Listed[k]) => DeleteCount(Listed[k]) = 1

\* A sweep ended whose first delete, on the first page, failed with a fault
\* other than "in use" and was followed by a delete on the same page and one
\* on the next page.
C16_Witness ==
    /\ sweep.pc = "done"
    /\ ~sweep.listErr
    /\ Len(sweep.listing) = 2
    /\ Len(sweep.deletes) = 2
    /\ sweep.deletes[1].outcome = "Throttling"
    /\ sweep.deletes[1].name = sweep.listing[1][1]
    /\ sweep.deletes[2].name = sweep.listing[2][1]
    /\ sweep.deletes[2].outcome = "ok"
    /\ sweep.logged[1] = [msg |-> "error cleaning up",
                          name |-> sweep.deletes[1].name]

----------------------------------------------------------------------------
(* Two callers provisioning the group of the same instance at the same     *)
(* time, each with its own copy of the instance record.                    *)

\* A step of a ProvisionCustomParameterGroupIfNecessary call of caller p.
CallStep(p) ==
    \/ ProvisionStart(p)
    \/ GetParameterGroupFamily(p)
    \/ FetchDefaultsPage(p)
    \/ CheckIfParameterGroupExists(p)
    \/ CreateDBParameterGroup(p)
    \/ ModifyDBParameterGroup(p)
    \/ Return(p)

\* Instances that need custom parameters.
NeedingInstances ==
    { [NewInstance("db-1", "mysql") EXCEPT !.BinaryLogFormat = "ROW"],
      [NewInstance("db-1", "postgres") EXCEPT
          !.EnablePgCron = "true", !.DbVersion = "12.3"] }

InitRace ==
    /\ \E i \in NeedingInstances :
          /\ inst = [p \in Procs |-> i]
          /\ catalog = IF i.DbType = "postgres" THEN CatalogSecondPage
                       ELSE CatalogNoLibraries
    /\ groups = EmptyMap
    /\ settings = [EnableFunctionsFeature |-> FALSE]
    /\ attached = {}
    /\ proc = [p \in Procs |-> IdleProc]
    /\ prev = NoPrev
    /\ addressed = {}
    /\ mPre = NewInstance("db-1", "postgres")
    /\ mOpts = NoOptions
    /\ mPlan = NoPlan
    /\ mErr = "none"
    /\ sweep = IdleSweep

NextRace == \E p \in Procs : CallStep(p)

SpecRace == InitRace /\ [][NextRace]_vars

\* The caller's call has made a call of op that matches the outcome and the
\* presence of the group at the time.
Made(p, op, ok, present) ==
    \E k \in 1..Len(proc[p].calls) :
        /\ proc[p].calls[k].op = op
        /\ proc[p].calls[k].ok = ok
        /\ proc[p].calls[k].present = present

IssuedBy(p, op) == \E k \in 1..Len(proc[p].calls) : proc[p].calls[k].op = op

\* The control plane rejected the caller's create of a group that was there.
CreateRejected(p) == Made(p, "CreateDBParameterGroup", FALSE, TRUE)

\* C21: the existence query and the create are not atomic.  Of two concurrent
\* calls for a group that was never there, both can find the group absent
\* and both issue a create; the control plane accepts no create of a group
\* that is there, and a call whose create was rejected returns at once, with
\* the empty name and the creation error, having issued no apply call.
C21_CreateRace ==
    \A p \in Procs :
        /\ ~Made(p, "CreateDBParameterGroup", TRUE, TRUE)
        /\ CreateRejected(p) =>
              /\ proc[p].pc = "done"
              /\ proc[p].result = ""
              /\ proc[p].err = ErrApplying \o ErrCreating
                                  \o Failed("CreateDBParameterGroup")
              /\ ~IssuedBy(p, "ModifyDBParameterGroup")

\* Both callers found the group absent while it was; the first created it,
\* the create of the second was rejected, and the second has returned the
\* empty name while the group is there.
C21_Witness ==
    /\ Made("p1", "DescribeDBParameters", FALSE, FALSE)
    /\ Made("p2", "DescribeDBParameters", FALSE, FALSE)
    /\ Made("p1", "CreateDBParameterGroup", TRUE, FALSE)
    /\ CreateRejected("p2")
    /\ proc["p2"].pc = "done"
    /\ proc["p2"].result = ""
    /\ pgroupName(inst["p2"]) \in DOMAIN groups
    /\ pgroupName(inst["p1"]) = pgroupName(inst["p2"])

----------------------------------------------------------------------------
(* A cleanup sweep running while a caller provisions the group of its      *)
(* instance.                                                               *)

\* The group of the instance is not there yet, or it is there and attached
\* to the instance or not (a group stays unattached until the caller has
\* created or modified the instance with the name it got).
InitConcurrent ==
    /\ \E i \in NeedingInstances :
          /\ inst = [p \in Procs |-> i]
          /\ catalog = IF i.DbType = "postgres" THEN CatalogSecondPage
                       ELSE CatalogNoLibraries
          /\ \/ groups = EmptyMap /\ attached = {}
             \/ /\ groups = MapSet(EmptyMap, pgroupName(i),
                                   Group(i.DbType \o "5.7", EmptyMap))
                /\ attached \in {{}, {pgroupName(i)}}
    /\ settings = [EnableFunctionsFeature |-> FALSE]
    /\ proc = [p \in Procs |-> IdleProc]
    /\ prev = NoPrev
    /\ addressed = {}
    /\ mPre = NewInstance("db-1", "postgres")
    /\ mOpts = NoOptions
    /\ mPlan = NoPlan
    /\ mErr = "none"
    /\ sweep = IdleSweep

NextConcurrent ==
    \/ CallStep(MainProc)
    \/ SweepStart
    \/ SweepFetchPage
    \/ SweepGroup
    \/ SweepReturn

SpecConcurrent == InitConcurrent /\ [][NextConcurrent]_vars

\* The calls of the running call on the group, in order.
GroupCallsMade == SelectSeq(P.calls, IsGroupCall)

\* C22: a cleanup sweep is safe to run at the same time as a provisioning
\* call: no call of the provisioning call on its group finds the group gone
\* after an earlier call of it found or made the group, and a group name the
\* call returns names a group that is on the control plane when the caller
\* takes it.
C22_SweepSafe ==
    /\ P.op = "provision" =>
          \A j, k \in 1..Len(GroupCallsMade) :
              j < k /\ GroupCallsMade[j].ok => GroupCallsMade[k].present
    /\ prev.valid /\ prev.result # "" => prev.exists

----------------------------------------------------------------------------
(* A provisioning call after one whose apply failed. *)

ErrApplyFailed == ErrApplying \o Failed("ModifyDBParameterGroup")

\* The call at hand created the group and its apply then failed.
ApplyFailedAfterCreate ==
    /\ P.op = "provision"
    /\ P.pc = "done"
    /\ Succeeded("CreateDBParameterGroup")
    /\ FailedCall("ModifyDBParameterGroup")

\* Such a call returns the empty name and the error of the apply, makes no
\* call after the failed apply, and leaves the group as it created it.
NoCleanup ==
    ApplyFailedAfterCreate =>
        /\ P.result = ""
        /\ P.err = ErrApplyFailed
        /\ LastFailed("ModifyDBParameterGroup")
        /\ pgroupName(I) \in DOMAIN groups
        /\ groups[pgroupName(I)] = Group(I.ParameterGroupFamily, EmptyMap)

\* The call at hand has returned, and the call before it, with the same
\* instance and settings, had created the group and failed at the apply.
RetryRun ==
    /\ P.op = "provision"
    /\ P.pc = "done"
    /\ prev.valid
    /\ prev.created
    /\ prev.err = ErrApplyFailed

\* C23 as stated: a call that creates the group and fails at the apply
\* returns the empty name and an error and leaves the created group on the
\* control plane; a later call with the same instance and settings finds
\* the group, issues no create, applies the full derived parameter set and
\* returns the group name.  (Read in the claim's favour: the later call may
\* fail before its existence query or at its apply; it is held to finding
\* the group when it asks for it, to issuing no create, and to the name and
\* the derived parameters when its apply succeeds.)
C23_Original ==
    /\ NoCleanup
    /\ RetryRun =>
          /\ Issued("DescribeDBParameters") =>
                Succeeded("DescribeDBParameters")
          /\ ~Issued("CreateDBParameterGroup")
          /\ Succeeded("ModifyDBParameterGroup") =>
                P.result = pgroupName(I) /\ Converged

\* C23 as amended: a call that creates the group and fails at the apply
\* returns the empty name and an error and leaves the created group on the
\* control plane; in a later call with the same instance and settings the
\* group is still there, a create is issued only when the existence query
\* failed and is rejected, and when the later call returns without error it
\* has found the group, issued no create, applied the full derived parameter
\* set in one apply call and returned the group name.
C23_RetryRecovers ==
    /\ NoCleanup
    /\ RetryRun =>
          /\ pgroupName(I) \in DOMAIN groups
          /\ Issued("CreateDBParameterGroup") =>
                FailedCall("DescribeDBParameters")
          /\ ~Succeeded("CreateDBParameterGroup")
          /\ P.err = NoError =>
                /\ Succeeded("DescribeDBParameters")
                /\ ~Issued("CreateDBParameterGroup")
                /\ NumIssued("ModifyDBParameterGroup") = 1
                /\ P.result = pgroupName(I)
                /\ Converged

\* A retry after a failed apply returned the name of the group, which the
\* failed call had created and left without parameters.
C23_Witness ==
    /\ RetryRun
    /\ prev.group.params = EmptyMap
    /\ pgroupName(I) \notin DOMAIN P.g0 \/ P.g0[pgroupName(I)].params = EmptyMap
    /\ P.err = NoError
    /\ P.result = pgroupName(I)
    /\ ~Issued("CreateDBParameterGroup")
    /\ Converged
    /\ groups[pgroupName(I)].params # EmptyMap

====
